---------------------------- MODULE Spec2Model ----------------------------
(* henix: deployment of a NixOS configuration to a set of nodes over SSH.   *)
(*                                                                          *)
(* Two specifications share this module:                                    *)
(*   Spec / FairSpec  the orchestrator `run` (src/src/lib.rs) driving one   *)
(*                    `process_node` (src/src/deploy.rs) per selected node; *)
(*   MuxSpec          `proxy_output_to_logging` (src/src/ssh.rs, the same   *)
(*                    code in src/src/util.rs) draining one child's stdout  *)
(*                    and stderr, followed by its caller `build_config`.    *)
(* Under Spec the streamed command of `build_config` is drawn from          *)
(* ProxyResults, the set of values MuxSpec shows the multiplexer returns.   *)
EXTENDS Integers, Sequences, FiniteSets, TLC

\* ------------------------------------------------------------------ bounds
\* Longest --target list given on the command line.
MaxTargets == 2
\* Most lines a child writes to one of its streams.
MaxLines == 2
\* The items a pipe holds before a write to it blocks.
PipeCap == 1
\* Most successive runs of the program against the same nodes.
MaxRuns == 3

\* The keys of deploy_cfg.nodes (a BTreeMap: keys are unique).
Nodes == {"alpha", "beta"}
\* A name that may be given with --target and is no key of the node map.
Ghost == "ghost"
TargetNames == Nodes \cup {Ghost}

SeqsUpTo(S, k) == UNION {[1..i -> S] : i \in 0..k}
Range(s) == {s[i] : i \in 1..Len(s)}

VARIABLES
    \* ---- inputs of run
    targets,              \* dep_opts.targets: None or a sequence of names
    rollback_on_failure,  \* node_cfg.rollback_on_failure, per node
    boot,                 \* dep_opts.boot
    show_trace,           \* dep_opts.show_trace
    ssh_port,             \* node_cfg.ssh_port, per node: {} is None, {p} is Some(p)
    cfg,                  \* the content (hash) of the local config directory
    runNo,                \* which run of the program this is, from 1
    \* ---- the remote of each node
    fs,                   \* /etc/nixos and /etc/nixos.old on the node
    nixosBefore,          \* /etc/nixos on the node when this run started
    cmds,                 \* the command lines the node task has issued
    copies,               \* every rsync that has succeeded, over all the runs
    \* ---- run and the process binary
    runPc,                \* position of run: eval, validate, join, wait, returned
    runResult,            \* "none" | "Ok" | "ErrEval" | "ErrTarget"
    exitCode,             \* -1 while the process runs, then 0 or 1
    \* ---- one process_node per node
    pc,                   \* position of the node task
    trace,                \* the operations the node task invoked, with results
    errors,               \* the error! entries the node task logged
    \* ---- proxy_output_to_logging
    stdoutData,           \* what the child writes to stdout, item by item
    stderrData,           \* what the child writes to stderr
    childStatus,          \* the exit status the child ends with
    child,                \* unspawned, spawnfailed, running, exited, waitfailed
    piped,                \* the streams whose handle the spawned child has
    outWritten,           \* how many items the child has written to stdout
    errWritten,           \* how many items the child has written to stderr
    childEnded,           \* the child has terminated, its ends of the pipes closed
    mpc,                  \* position in proxy_output_to_logging
    outPos,               \* items of stdoutData consumed by stdout_lines
    errPos,               \* items of stderrData consumed by stderr_lines
    disabled,             \* select! branches disabled in the current iteration
    mlog,                 \* entries logged: <<tag, index of the line>>
    muxResult,            \* the value returned: "none" or a member of ProxyResults
    stepResult            \* what build_config makes of it: "none" | "Ok" | "Err"

optVars == <<targets, rollback_on_failure, boot, show_trace, ssh_port, cfg, runNo>>
remoteVars == <<fs, nixosBefore, cmds, copies>>
orchVars == <<optVars, remoteVars, runPc, runResult, exitCode, pc, trace, errors>>
childVars == <<piped, outWritten, errWritten, childEnded>>
muxVars == <<stdoutData, stderrData, childStatus, child, childVars, mpc, outPos, errPos,
             disabled, mlog, muxResult, stepResult>>
vars == <<orchVars, muxVars>>

\* ------------------------------------------------- results of operations
\* Result<ExitStatus> of a command run to completion (status() / output()).
CmdResults == {"ok", "nonzero", "execerr"}
\* Result<Session> of connect_to_node.
ConnectResults == {"ok", "err"}
\* Result<ExitStatus> of proxy_output_to_logging.
ProxyResults == {"Ok0", "OkNonZero", "SpawnFailed", "WaitFailed"}

\* build_config: `.context("Rebuild execution failed")?` then
\* `if !rebuild.success() { return Err(..) }`.
BuildConfigFails(r) == r # "Ok0"

\* ------------------------------------------------------------ orchestrator
Absent == [present |-> FALSE, names |-> <<>>]
Given(s) == [present |-> TRUE, names |-> s]
TargetChoices == {Absent} \cup {Given(s) : s \in SeqsUpTo(TargetNames, MaxTargets)}

\* run: `for target in targets { if deploy_cfg.nodes.get(target).is_none() {
\* return Err(..) } }`, skipped when the filter is absent.
AllTargetsExist_Unchecked == TRUE
AllTargetsExist ==
    targets.present => \A i \in 1..Len(targets.names) : targets.names[i] \in Nodes

\* run: `dep_opts.targets.as_ref().map_or(true, |targets|
\* targets.iter().any(|t| t == &name))`.
Selected_FilterRequired(n) == targets.present /\ n \in Range(targets.names)
Selected(n) == (~targets.present) \/ (\E i \in 1..Len(targets.names) : targets.names[i] = n)

Terminal(n) == pc[n] \in {"done", "skipped"}

\* run: `join_all(..).await` completes when every future of the map has.
AllNodesTerminal_Any == \E n \in Nodes : Terminal(n)
AllNodesTerminal == \A n \in Nodes : Terminal(n)

\* run: `Ok(())` after the join, whatever the node tasks logged.
RunResultAfterJoin_Aggregated ==
    IF \E n \in Nodes : errors[n] # <<>> THEN "ErrEval" ELSE "Ok"
RunResultAfterJoin == "Ok"

\* process_node: `if node_cfg.rollback_on_failure { rollback(..) }`.
RollbackWanted_Always(n) == TRUE
RollbackWanted(n) == rollback_on_failure[n]

\* process_node, connect_to_node failed: `error!(..); return;`.
AfterConnectError_Policy(n) == IF rollback_on_failure[n] THEN "rb_rm" ELSE "done"
AfterConnectError(n) == "done"

\* process_node, process_node_raw failed: log, then rollback by policy.
AfterStepError(n) == IF RollbackWanted(n) THEN "rb_rm" ELSE "done"

\* copy_config: the rsync is spawned only when the mv succeeded (`?`, and
\* the early return on `!mv.success()`).
AfterMv_NoRollback(n, r) == IF r = "ok" THEN "rsync" ELSE "done"
AfterMv(n, r) == IF r = "ok" THEN "rsync" ELSE AfterStepError(n)

\* process_node_raw: `copy_config(..).await.context(..)?` before build_config.
AfterRsync_IgnoreError(n, r) == "build"
AfterRsync(n, r) == IF r = "ok" THEN "build" ELSE AfterStepError(n)

\* process_node_raw: `build_config(..).await.context(..)?; Ok(())`.
AfterBuild_FailureAnyway(n, r) == AfterStepError(n)
AfterBuild(n, r) == IF BuildConfigFails(r) THEN AfterStepError(n) ELSE "done"

\* join_all keeps polling the other futures whatever one of them returns:
\* the positions of the sibling tasks are left as they are.
Siblings_AbortedOnError(n, r) ==
    [m \in Nodes |->
        IF r \notin {"ok", "Ok0"} /\ m # n /\ ~Terminal(m) THEN "done" ELSE pc[m]]
Siblings(n, r) == pc

\* join_all polls every future that is not complete, in no order.
Polled_InMapOrder(n) == n = "alpha" \/ Terminal("alpha")
Polled(n) == TRUE

\* ------------------------------------------------- the commands issued
\* ------------------------------------------------------- the endpoints
\* The port ssh connects to when it is given none.
DefaultPort == 22
\* A port other than the default one, for `ssh_port: Some(..)`.
CustomPort == 2222
\* NodeCfg.ssh_port: Option<u16>.
PortChoices == {{}, {CustomPort}}

\* connect_to_node: `builder.port(ssh_port)` if there is one, then
\* `.connect(&node_cfg.location)`; the node's name stands for its location.
SessionEndpoint(n) ==
    [host |-> n,
     port |-> IF ssh_port[n] = {} THEN DefaultPort ELSE CHOOSE p \in ssh_port[n] : TRUE]

\* copy_config: `-e ssh` and `root@{location}:/etc/nixos`, no port given.
RsyncEndpoint(n) == [host |-> n, port |-> DefaultPort]

\* The two remote paths the commands name, as their components.
EtcNixos == <<"etc", "nixos">>
EtcNixosOld == <<"etc", "nixos.old">>

\* copy_config: the rsync destination `root@{location}:/etc/nixos`, the same
\* path whatever is copied.
RemotePath_Hashed(c) == Append(EtcNixos, c)
RemotePath(c) == EtcNixos

\* build_config: `format!("/etc/nixos#{}", node_name)`.
FlakeRef(n) == [path |-> EtcNixos, name |-> n]

\* build_config: `nixos-rebuild {boot|switch} --flake /etc/nixos#{name}`; these
\* are all the arguments.
RebuildArgs(n) ==
    [cmd |-> "nixos-rebuild",
     args |-> <<IF boot THEN "boot" ELSE "switch", "--flake">>,
     flake |-> FlakeRef(n), endpoint |-> SessionEndpoint(n)]

\* copy_config: the rsync command line, for local content c and node n.
RsyncArgs(n, c) ==
    [cmd |-> "rsync", flags |-> {"--exclude=.git/", "-a", "-F", "--delete"},
     from |-> c, host |-> n, to |-> RemotePath(c), endpoint |-> RsyncEndpoint(n)]

\* ------------------------------------------- the commands on the remote
\* `mv /etc/nixos /etc/nixos.old`: a rename when /etc/nixos.old does not
\* exist; a move into it, as /etc/nixos.old/nixos, when it is a directory; it
\* fails when /etc/nixos does not exist or /etc/nixos.old/nixos is there.
CanMvAside(f) == f.nixos # <<>> /\ Len(f.old) <= 1
MvAside(f) == [nixos |-> <<>>, old |-> f.old \o f.nixos]

\* `rsync -a --delete {cfg_dir}/ root@..:/etc/nixos`: the path holds the local
\* content and nothing else.
Rsync(f, c) == [f EXCEPT !.nixos = <<c>>]

\* What an rsync with result r leaves on the remote: the copy; or, when rsync
\* exits with an error, the remote as it was or a part of the content (-c)
\* in /etc/nixos; or the remote as it was when rsync could not be executed.
RsyncOutcomes(f, c, r) ==
    IF r = "ok" THEN {Rsync(f, c)}
    ELSE IF r = "nonzero" THEN {f, Rsync(f, -c)}
    ELSE {f}

\* `rm -r /etc/nixos`: fails when the path does not exist.
CanRm(f) == f.nixos # <<>>
Rm(f) == [f EXCEPT !.nixos = <<>>]

\* `mv /etc/nixos.old /etc/nixos`, /etc/nixos having just been removed: a
\* rename; it fails when /etc/nixos.old does not exist.
CanMvBack(f) == f.old # <<>> /\ f.nixos = <<>>
MvBack(f) == [nixos |-> f.old, old |-> <<>>]

\* process_node: each `error!(..)` adds an entry to the log; the entry of a
\* failed rollback comes after the entry of the error that led to it.
AppendErrors_Overwrite(prev, errs) == IF errs = <<>> THEN prev ELSE errs
AppendErrors(prev, errs) == prev \o errs

\* One step of node n: operation `op` returned `r`; the task moves to `next`
\* and logs `errs`.
NodeStep(n, op, r, next, errs) ==
    /\ pc' = [Siblings(n, r) EXCEPT ![n] = next]
    /\ trace' = [trace EXCEPT ![n] = Append(@, <<op, r>>)]
    /\ errors' = [errors EXCEPT ![n] = AppendErrors(@, errs)]
    /\ UNCHANGED <<optVars, nixosBefore, runPc, runResult, exitCode, muxVars>>

MuxIdle ==
    /\ stdoutData = <<>> /\ stderrData = <<>> /\ childStatus = 0
    /\ child = "unspawned"
    /\ mpc = "idle" /\ outPos = 0 /\ errPos = 0 /\ disabled = {}
    /\ mlog = <<>> /\ muxResult = "none" /\ stepResult = "none"
    /\ piped = {} /\ outWritten = 0 /\ errWritten = 0 /\ childEnded = FALSE

\* A node never deployed to: its own configuration in /etc/nixos, and no
\* /etc/nixos.old. A directory is the sequence of the contents found in it,
\* in its subdirectory `nixos`, in the `nixos` of that one, and so on; the
\* empty sequence is a path that does not exist.
FreshRemote == [nixos |-> <<0>>, old |-> <<>>]

\* The start of a run of the program: the options are parsed, nothing runs.
RunStart ==
    /\ runPc = "eval"
    /\ runResult = "none"
    /\ exitCode = -1
    /\ pc = [n \in Nodes |-> "idle"]
    /\ trace = [n \in Nodes |-> <<>>]
    /\ errors = [n \in Nodes |-> <<>>]
    /\ cmds = [n \in Nodes |-> <<>>]

\* The first run of the program, against nodes never deployed to.
FirstRun ==
    /\ cfg = 1
    /\ runNo = 1
    /\ fs = [n \in Nodes |-> FreshRemote]
    /\ nixosBefore = [n \in Nodes |-> fs[n].nixos]
    /\ copies = {}
    /\ RunStart
    /\ MuxIdle

Init ==
    /\ targets \in TargetChoices
    /\ rollback_on_failure \in [Nodes -> BOOLEAN]
    /\ boot \in BOOLEAN
    /\ show_trace \in BOOLEAN
    /\ ssh_port = [n \in Nodes |-> {}]
    /\ FirstRun

\* run, from the completion of `nix::eval(..).await` to the first poll of the
\* joined futures: the eval may fail (`?`), the targets are validated, and
\* each node's future either starts process_node or completes at once.
run_deploy ==
    /\ runPc = "eval"
    /\ \E evalOk \in BOOLEAN :
        \/ /\ ~evalOk
           /\ runResult' = "ErrEval" /\ runPc' = "returned"
           /\ UNCHANGED pc
        \/ /\ evalOk /\ ~AllTargetsExist
           /\ runResult' = "ErrTarget" /\ runPc' = "returned"
           /\ UNCHANGED pc
        \/ /\ evalOk /\ AllTargetsExist
           /\ runPc' = "join"
           /\ pc' = [n \in Nodes |-> IF Selected(n) THEN "connect" ELSE "skipped"]
           /\ UNCHANGED runResult
    /\ UNCHANGED <<optVars, remoteVars, exitCode, trace, errors, muxVars>>

\* process_node: `match ssh::connect_to_node(..).await`.
connect_to_node(n) ==
    /\ pc[n] = "connect"
    /\ Polled(n)
    /\ \E r \in ConnectResults :
        IF r = "ok"
        THEN NodeStep(n, "connect", r, "mv", <<>>)
        ELSE NodeStep(n, "connect", r, AfterConnectError(n), <<"connect">>)
    /\ cmds' = [cmds EXCEPT ![n] = Append(@, [cmd |-> "connect", user |-> "root",
                                              endpoint |-> SessionEndpoint(n)])]
    /\ UNCHANGED <<fs, copies>>

\* copy_config: `mv /etc/nixos /etc/nixos.old` on the remote.
copy_config_mv(n) ==
    /\ pc[n] = "mv"
    /\ Polled(n)
    /\ \E r \in CmdResults :
        /\ r = "ok" => CanMvAside(fs[n])
        /\ NodeStep(n, "mv", r, AfterMv(n, r), IF r = "ok" THEN <<>> ELSE <<"copy">>)
        /\ fs' = IF r = "ok" THEN [fs EXCEPT ![n] = MvAside(@)] ELSE fs
    /\ cmds' = [cmds EXCEPT ![n] = Append(@, [cmd |-> "mv", from |-> EtcNixos, to |-> EtcNixosOld,
                                          endpoint |-> SessionEndpoint(n)])]
    /\ UNCHANGED copies

\* copy_config: the local rsync to root@location:/etc/nixos.
copy_config_rsync(n) ==
    /\ pc[n] = "rsync"
    /\ Polled(n)
    /\ \E r \in CmdResults :
        /\ NodeStep(n, "rsync", r, AfterRsync(n, r), IF r = "ok" THEN <<>> ELSE <<"copy">>)
        /\ \E w \in RsyncOutcomes(fs[n], cfg, r) : fs' = [fs EXCEPT ![n] = w]
        /\ copies' = IF r = "ok" THEN copies \cup {RsyncArgs(n, cfg)} ELSE copies
    /\ cmds' = [cmds EXCEPT ![n] = Append(@, RsyncArgs(n, cfg))]

\* build_config: nixos-rebuild through ssh::proxy_output_to_logging.
build_config(n) ==
    /\ pc[n] = "build"
    /\ Polled(n)
    /\ \E r \in ProxyResults :
        NodeStep(n, "build", r, AfterBuild(n, r),
                 IF BuildConfigFails(r) THEN <<"build">> ELSE <<>>)
    /\ cmds' = [cmds EXCEPT ![n] = Append(@, RebuildArgs(n))]
    /\ UNCHANGED <<fs, copies>>

\* rollback: `rm -r /etc/nixos`; a failure ends the rollback and is logged by
\* process_node as "Error while rolling back".
rollback_rm(n) ==
    /\ pc[n] = "rb_rm"
    /\ Polled(n)
    /\ \E r \in CmdResults :
        /\ r = "ok" => CanRm(fs[n])
        /\ NodeStep(n, "rm", r, IF r = "ok" THEN "rb_mv" ELSE "done",
                    IF r = "ok" THEN <<>> ELSE <<"rollback">>)
        /\ fs' = IF r = "ok" THEN [fs EXCEPT ![n] = Rm(@)] ELSE fs
    /\ cmds' = [cmds EXCEPT ![n] = Append(@, [cmd |-> "rm", flags |-> {"-r"}, path |-> EtcNixos,
                                          endpoint |-> SessionEndpoint(n)])]
    /\ UNCHANGED copies

\* rollback: `mv /etc/nixos.old /etc/nixos`.
rollback_mv(n) ==
    /\ pc[n] = "rb_mv"
    /\ Polled(n)
    /\ \E r \in CmdResults :
        /\ r = "ok" => CanMvBack(fs[n])
        /\ NodeStep(n, "mvback", r, "done", IF r = "ok" THEN <<>> ELSE <<"rollback">>)
        /\ fs' = IF r = "ok" THEN [fs EXCEPT ![n] = MvBack(@)] ELSE fs
    /\ cmds' = [cmds EXCEPT ![n] = Append(@, [cmd |-> "mv", from |-> EtcNixosOld, to |-> EtcNixos,
                                          endpoint |-> SessionEndpoint(n)])]
    /\ UNCHANGED copies

\* run: the join completes and run returns.
run_return ==
    /\ runPc = "join"
    /\ AllNodesTerminal
    /\ runPc' = "returned"
    /\ runResult' = RunResultAfterJoin
    /\ UNCHANGED <<optVars, remoteVars, exitCode, pc, trace, errors, muxVars>>

\* bin/henix.rs main: `if let Err(e) = run(..).await { ..; exit(1) }`.
main_exit ==
    /\ runPc = "returned"
    /\ exitCode = -1
    /\ exitCode' = IF runResult = "Ok" THEN 0 ELSE 1
    /\ UNCHANGED <<optVars, remoteVars, runPc, runResult, pc, trace, errors, muxVars>>

Next ==
    \/ run_deploy
    \/ \E n \in Nodes : connect_to_node(n)
    \/ \E n \in Nodes : copy_config_mv(n)
    \/ \E n \in Nodes : copy_config_rsync(n)
    \/ \E n \in Nodes : build_config(n)
    \/ \E n \in Nodes : rollback_rm(n)
    \/ \E n \in Nodes : rollback_mv(n)
    \/ run_return
    \/ main_exit

Spec == Init /\ [][Next]_vars

\* The program is run again, with a new content of the config directory,
\* once the process of the previous run has exited; the remotes stay as the
\* previous run left them.
next_run ==
    /\ exitCode # -1
    /\ runNo < MaxRuns
    /\ runNo' = runNo + 1
    /\ cfg' = cfg + 1
    /\ nixosBefore' = [n \in Nodes |-> fs[n].nixos]
    /\ runPc' = "eval"
    /\ runResult' = "none"
    /\ exitCode' = -1
    /\ pc' = [n \in Nodes |-> "idle"]
    /\ trace' = [n \in Nodes |-> <<>>]
    /\ errors' = [n \in Nodes |-> <<>>]
    /\ cmds' = [n \in Nodes |-> <<>>]
    /\ UNCHANGED <<targets, rollback_on_failure, boot, show_trace, ssh_port, fs, copies,
                   muxVars>>

\* Successive runs against one node, `--target alpha`.
RunsInit ==
    /\ Init
    /\ targets = Given(<<"alpha">>)
    /\ ~boot /\ ~show_trace

RunsNext == Next \/ next_run

\* A deployment to all the nodes, each with or without an `ssh_port`.
PortsInit ==
    /\ targets = Absent
    /\ rollback_on_failure \in [Nodes -> BOOLEAN]
    /\ boot = FALSE /\ show_trace = FALSE
    /\ ssh_port \in [Nodes -> PortChoices]
    /\ FirstRun

PortsSpec == PortsInit /\ [][Next]_vars

RunsSpec == RunsInit /\ [][RunsNext]_vars

\* Every connection attempt and every command terminates, and the executor
\* keeps polling every future of the join: each pending step is taken.
FairSpec ==
    /\ Init /\ [][Next]_vars
    /\ WF_vars(run_deploy) /\ WF_vars(run_return) /\ WF_vars(main_exit)
    /\ \A n \in Nodes :
        /\ WF_vars(connect_to_node(n)) /\ WF_vars(copy_config_mv(n))
        /\ WF_vars(copy_config_rsync(n)) /\ WF_vars(build_config(n))
        /\ WF_vars(rollback_rm(n)) /\ WF_vars(rollback_mv(n))

\* ------------------------------------------------ the variant of main.rs
\* main.rs holds an older variant of the whole program, in one file. Its
\* connect_to_node (with no port), copy_config and rollback and the body of its
\* process_node are those modelled above; its build_config and the tail of its
\* process_node_raw differ, and so does its main.

\* DeployOpts.force_rollback_on_failure: Option<bool>, {} for None.
ForceChoices == {{}, {TRUE}, {FALSE}}

\* main: nix_eval with `?`, the override of every node's rollback_on_failure
\* when the option is given, then a task for every node.
alt_main ==
    /\ runPc = "eval"
    /\ \E evalOk \in BOOLEAN :
        \/ /\ ~evalOk
           /\ runResult' = "ErrEval" /\ runPc' = "returned"
           /\ UNCHANGED <<pc, rollback_on_failure>>
        \/ /\ evalOk
           /\ \E forced \in ForceChoices :
                rollback_on_failure' =
                    IF forced = {} THEN rollback_on_failure
                    ELSE [n \in Nodes |-> CHOOSE b \in forced : TRUE]
           /\ runPc' = "join"
           /\ pc' = [n \in Nodes |-> "connect"]
           /\ UNCHANGED runResult
    /\ UNCHANGED <<targets, boot, show_trace, ssh_port, cfg, runNo, remoteVars, exitCode,
                   trace, errors, muxVars>>

\* build_config of main.rs: always `switch`.
AltRebuildArgs(n) ==
    [cmd |-> "nixos-rebuild", args |-> <<"switch", "--flake">>,
     flake |-> FlakeRef(n), endpoint |-> SessionEndpoint(n)]

\* process_node_raw once build_config has returned Ok(()):
\* `if node_cfg.rollback_on_unreachable { todo!() } Ok(())`.
RawTail == {"Ok", "panic"}

\* A step of the node task of main.rs: the calls made and their results, the
\* next position, the errors logged.
AltStep(n, calls, next, errs) ==
    /\ pc' = [pc EXCEPT ![n] = next]
    /\ trace' = [trace EXCEPT ![n] = @ \o calls]
    /\ errors' = [errors EXCEPT ![n] = @ \o errs]
    /\ UNCHANGED <<optVars, nixosBefore, copies, runPc, runResult, exitCode, muxVars>>

\* build_config returns Err(..): `?` in process_node_raw, then process_node
\* logs the error and rolls back when rollback_on_failure is set.
AltRawErr(n, calls) ==
    AltStep(n, calls \o << <<"process_node_raw", "Err">> >>, AfterStepError(n), <<"build">>)

\* build_config returns Ok(()): process_node_raw goes on to its end.
AltRawOk(n, calls, errs) ==
    \E t \in RawTail :
        AltStep(n, calls \o << <<"process_node_raw", t>> >>, "done", errs)

\* build_config of main.rs: the remote nixos-rebuild; `?` when it cannot be
\* executed; when it exits non-zero, `error!(..)` and, if rollback_on_failure,
\* `return rollback(remote).await`; Ok(()) in every other case.
alt_build_config(n) ==
    /\ pc[n] = "build"
    /\ \E r \in CmdResults :
        LET call == << <<"build", r>> >> IN
        IF r = "execerr" THEN AltRawErr(n, call)
        ELSE IF r = "ok" THEN AltRawOk(n, call, <<>>)
        ELSE IF rollback_on_failure[n] THEN AltStep(n, call, "brb_rm", <<"rebuild">>)
        ELSE AltRawOk(n, call, <<"rebuild">>)
    /\ cmds' = [cmds EXCEPT ![n] = Append(@, AltRebuildArgs(n))]
    /\ UNCHANGED fs

\* rollback, called by build_config: `rm -r /etc/nixos`. Its error is the
\* result of build_config.
alt_build_rollback_rm(n) ==
    /\ pc[n] = "brb_rm"
    /\ \E r \in CmdResults :
        /\ r = "ok" => CanRm(fs[n])
        /\ IF r = "ok" THEN AltStep(n, << <<"rm", r>> >>, "brb_mv", <<>>)
                       ELSE AltRawErr(n, << <<"rm", r>> >>)
        /\ fs' = IF r = "ok" THEN [fs EXCEPT ![n] = Rm(@)] ELSE fs
    /\ cmds' = [cmds EXCEPT ![n] = Append(@, [cmd |-> "rm", flags |-> {"-r"}, path |-> EtcNixos,
                                          endpoint |-> SessionEndpoint(n)])]

\* rollback, called by build_config: `mv /etc/nixos.old /etc/nixos`. Its
\* result is the result of build_config.
alt_build_rollback_mv(n) ==
    /\ pc[n] = "brb_mv"
    /\ \E r \in CmdResults :
        /\ r = "ok" => CanMvBack(fs[n])
        /\ IF r = "ok" THEN AltRawOk(n, << <<"mvback", r>> >>, <<>>)
                       ELSE AltRawErr(n, << <<"mvback", r>> >>)
        /\ fs' = IF r = "ok" THEN [fs EXCEPT ![n] = MvBack(@)] ELSE fs
    /\ cmds' = [cmds EXCEPT ![n] = Append(@, [cmd |-> "mv", from |-> EtcNixosOld, to |-> EtcNixos,
                                          endpoint |-> SessionEndpoint(n)])]

AltInit ==
    /\ targets = Absent
    /\ rollback_on_failure \in [Nodes -> BOOLEAN]
    /\ boot = FALSE /\ show_trace = FALSE
    /\ ssh_port = [n \in Nodes |-> {}]
    /\ FirstRun

AltNext ==
    \/ alt_main
    \/ \E n \in Nodes :
        \/ connect_to_node(n)
        \/ copy_config_mv(n)
        \/ copy_config_rsync(n)
        \/ alt_build_config(n)
        \/ alt_build_rollback_rm(n)
        \/ alt_build_rollback_mv(n)
        \/ rollback_rm(n)
        \/ rollback_mv(n)

AltSpec == AltInit /\ [][AltNext]_vars

\* The commands of node alpha may never complete (there is no timeout); those
\* of node beta terminate, and the executor keeps polling the join.
HangSpec ==
    /\ Init /\ [][Next]_vars
    /\ WF_vars(run_deploy)
    /\ WF_vars(connect_to_node("beta")) /\ WF_vars(copy_config_mv("beta"))
    /\ WF_vars(copy_config_rsync("beta")) /\ WF_vars(build_config("beta"))
    /\ WF_vars(rollback_rm("beta")) /\ WF_vars(rollback_mv("beta"))

\* ------------------------------------------------- proxy_output_to_logging
\* An item of a stream: a complete line, a line that is not valid UTF-8
\* (next_line returns Err for it, its bytes consumed), or a last line with no
\* trailing newline (returned as a line when the stream closes).
StreamItems == {"line", "invalid", "partial"}
StreamContents ==
    {d \in SeqsUpTo(StreamItems, MaxLines) :
        \A i \in 1..Len(d) : d[i] = "partial" => i = Len(d)}
Streams == {"stdout", "stderr"}

OrchIdle ==
    /\ targets = Absent
    /\ rollback_on_failure = [n \in Nodes |-> FALSE]
    /\ boot = FALSE /\ show_trace = FALSE /\ cfg = 1 /\ runNo = 1
    /\ ssh_port = [n \in Nodes |-> {}]
    /\ fs = [n \in Nodes |-> FreshRemote]
    /\ nixosBefore = [n \in Nodes |-> <<0>>]
    /\ cmds = [n \in Nodes |-> <<>>]
    /\ copies = {}
    /\ runPc = "idle" /\ runResult = "none" /\ exitCode = -1
    /\ pc = [n \in Nodes |-> "idle"]
    /\ trace = [n \in Nodes |-> <<>>]
    /\ errors = [n \in Nodes |-> <<>>]

\* The child: what it writes to each stream and the status it exits with.
MuxInit ==
    /\ OrchIdle
    /\ stdoutData \in StreamContents
    /\ stderrData \in StreamContents
    /\ childStatus \in {0, 1}
    /\ child = "unspawned"
    /\ piped \in SUBSET Streams
    /\ outWritten = 0 /\ errWritten = 0
    /\ childEnded = FALSE
    /\ mpc = "spawn"
    /\ outPos = 0 /\ errPos = 0
    /\ disabled = {}
    /\ mlog = <<>>
    /\ muxResult = "none"
    /\ stepResult = "none"

Data(s) == IF s = "stdout" THEN stdoutData ELSE stderrData
Pos(s) == IF s = "stdout" THEN outPos ELSE errPos
Written(s) == IF s = "stdout" THEN outWritten ELSE errWritten

\* The child writes its next item to stream s. A write to a pipe blocks while
\* the pipe is full, that is until the parent has read from it.
child_write(s) ==
    /\ child = "running" /\ ~childEnded
    /\ Written(s) < Len(Data(s))
    /\ s \in piped => Written(s) - Pos(s) < PipeCap
    /\ outWritten' = IF s = "stdout" THEN outWritten + 1 ELSE outWritten
    /\ errWritten' = IF s = "stderr" THEN errWritten + 1 ELSE errWritten
    /\ UNCHANGED <<orchVars, stdoutData, stderrData, childStatus, child, piped,
                   childEnded, mpc, outPos, errPos, disabled, mlog, muxResult,
                   stepResult>>

\* The child terminates, having written all it had to write.
child_exit ==
    /\ child = "running" /\ ~childEnded
    /\ \A s \in Streams : Written(s) = Len(Data(s))
    /\ childEnded' = TRUE
    /\ UNCHANGED <<orchVars, stdoutData, stderrData, childStatus, child, piped,
                   outWritten, errWritten, mpc, outPos, errPos, disabled, mlog,
                   muxResult, stepResult>>

\* next_line on stream s has a result: a line is in the pipe (a last line
\* with no newline is one only once the pipe is closed), or the pipe is closed
\* and empty.
Ready(s) ==
    \/ /\ Pos(s) < Written(s)
       /\ Data(s)[Pos(s) + 1] = "partial" => childEnded
    \/ childEnded /\ Pos(s) = Len(Data(s))

\* `else => break`: taken when every branch of this select! is disabled.
LoopBreak_AnyDisabled == disabled # {}
LoopBreak == disabled = Streams

\* `child.wait().await.context(..)`: the status as it is, or the wait error.
WaitResult_NonZeroIsErr(ok) == IF ok /\ childStatus = 0 THEN "Ok0" ELSE "WaitFailed"
WaitResult(ok) ==
    IF ok THEN (IF childStatus = 0 THEN "Ok0" ELSE "OkNonZero") ELSE "WaitFailed"

\* `cmd.stdin(..).stdout(..).stderr(..).spawn().context(..)?`.
proxy_spawn ==
    /\ mpc = "spawn"
    /\ \E ok \in BOOLEAN :
        IF ok
        THEN mpc' = "take_stdout" /\ child' = "running" /\ UNCHANGED muxResult
        ELSE mpc' = "returned" /\ child' = "spawnfailed" /\ muxResult' = "SpawnFailed"
    /\ UNCHANGED <<orchVars, stdoutData, stderrData, childStatus, childVars, outPos,
                   errPos, disabled, mlog, stepResult>>

\* `if let Some(child_stdout) = child.stdout().take() {..} else { warn!; return
\* child.wait().. }`, and the same for stderr.
proxy_take(s) ==
    /\ mpc = "take_" \o s
    /\ IF s \in piped
       THEN /\ mpc' = IF s = "stdout" THEN "take_stderr" ELSE "select"
            /\ UNCHANGED mlog
       ELSE /\ mpc' = "wait"
            /\ mlog' = Append(mlog, <<"warn", s, 0>>)
    /\ UNCHANGED <<orchVars, stdoutData, stderrData, childStatus, child, childVars,
                   outPos, errPos, disabled, muxResult, stepResult>>

\* One branch of the select! completes: `Ok(Some(line)) = <s>_lines.next_line()`.
\* A line is logged and the loop iterates (every branch enabled again); end of
\* stream (Ok(None)) or an error (Err) disables the branch for this select!.
\* The future of the other branch is dropped: next_line is cancellation safe,
\* so the other stream's position is left as it is.
select_branch(s) ==
    /\ mpc = "select"
    /\ s \notin disabled
    /\ Ready(s)
    /\ IF Pos(s) < Len(Data(s))
       THEN /\ outPos' = IF s = "stdout" THEN outPos + 1 ELSE outPos
            /\ errPos' = IF s = "stderr" THEN errPos + 1 ELSE errPos
            /\ IF Data(s)[Pos(s) + 1] # "invalid"
               THEN /\ mlog' = Append(mlog, <<"info", s, Pos(s) + 1>>)
                    /\ disabled' = {}
               ELSE /\ disabled' = disabled \cup {s}
                    /\ UNCHANGED mlog
       ELSE /\ disabled' = disabled \cup {s}
            /\ UNCHANGED <<outPos, errPos, mlog>>
    /\ UNCHANGED <<orchVars, stdoutData, stderrData, childStatus, child, childVars,
                   mpc, muxResult, stepResult>>

select_else ==
    /\ mpc = "select"
    /\ LoopBreak
    /\ mpc' = "wait"
    /\ UNCHANGED <<orchVars, stdoutData, stderrData, childStatus, child, childVars,
                   outPos, errPos, disabled, mlog, muxResult, stepResult>>

proxy_wait ==
    /\ mpc = "wait"
    /\ \E ok \in BOOLEAN :
        /\ ok => childEnded
        /\ child' = IF ok THEN "exited" ELSE "waitfailed"
        /\ muxResult' = WaitResult(ok)
    /\ mpc' = "returned"
    /\ UNCHANGED <<orchVars, stdoutData, stderrData, childStatus, childVars, outPos,
                   errPos, disabled, mlog, stepResult>>

\* build_config, after the call: `?` on the result, then the status test.
build_config_result ==
    /\ mpc = "returned"
    /\ stepResult' = IF BuildConfigFails(muxResult) THEN "Err" ELSE "Ok"
    /\ mpc' = "caller_done"
    /\ UNCHANGED <<orchVars, stdoutData, stderrData, childStatus, child, childVars,
                   outPos, errPos, disabled, mlog, muxResult>>

MuxNext ==
    \/ proxy_spawn
    \/ \E s \in Streams : child_write(s)
    \/ child_exit
    \/ \E s \in Streams : proxy_take(s)
    \/ \E s \in Streams : select_branch(s)
    \/ select_else
    \/ proxy_wait
    \/ build_config_result

MuxSpec == MuxInit /\ [][MuxNext]_vars

\* select! polls its enabled branches in a random order each time: a branch
\* that stays ready is taken. Nothing is assumed of the child or of the wait.
MuxFairSpec ==
    /\ MuxInit /\ [][MuxNext]_vars
    /\ \A s \in Streams : WF_vars(select_branch(s))

\* ------------------------------------------------------------------ claims
OkResults == {"ok", "Ok0"}
NoFailure(n) == \A i \in 1..Len(trace[n]) : trace[n][i][2] \in OkResults
Invoked(n, op) == \E i \in 1..Len(trace[n]) : trace[n][i][1] = op
Calls(n, op) == Cardinality({i \in 1..Len(trace[n]) : trace[n][i][1] = op})
Failed(n, op) ==
    \E i \in 1..Len(trace[n]) : trace[n][i][1] = op /\ trace[n][i][2] \notin OkResults
FullTrace == << <<"connect", "ok">>, <<"mv", "ok">>, <<"rsync", "ok">>, <<"build", "Ok0">> >>
Succeeded(n) == pc[n] = "done" /\ trace[n] = FullTrace /\ errors[n] = <<>>
CopiedThenBuildFailed(n) ==
    /\ Len(trace[n]) >= 4
    /\ SubSeq(trace[n], 1, 3) = SubSeq(FullTrace, 1, 3)
    /\ trace[n][4][1] = "build" /\ trace[n][4][2] # "Ok0"
HasUnknownTarget ==
    targets.present /\ \E i \in 1..Len(targets.names) : targets.names[i] \notin Nodes
NoNodeWork == \A n \in Nodes : pc[n] = "idle" /\ trace[n] = <<>> /\ errors[n] = <<>>

\* A finished node none of whose steps failed has succeeded, whenever the
\* build of another node has failed.
C1_OthersSucceed ==
    \A n \in Nodes : \A m \in Nodes \ {n} :
        (Failed(m, "build") /\ pc[n] = "done" /\ NoFailure(n)) => Succeeded(n)
\* A step that extends the trace of one node changes no other node.
C1_StepIsLocal ==
    \A n \in Nodes :
        trace'[n] # trace[n] =>
            \A m \in Nodes \ {n} :
                pc'[m] = pc[m] /\ trace'[m] = trace[m] /\ errors'[m] = errors[m]

\* C1 (failure isolation): whenever another node's build step has failed, a
\* node that has finished and none of whose own steps failed has run all of
\* connect, mv, rsync and build and ended successfully; and a step of one node
\* task (a failure and a rollback step included) leaves the position, the
\* executed steps and the logged errors of every other node as they were.
C1_Isolation == [] C1_OthersSucceed /\ [][C1_StepIsLocal]_vars
C1_Witness ==
    \E n \in Nodes : \E m \in Nodes \ {n} :
        /\ Failed(m, "build") /\ Invoked(m, "rm") /\ pc[m] = "done"
        /\ Succeeded(n)

\* C2 (fail-fast validation): when the target filter holds a name that is no
\* key of the node map, no node task ever starts (no connect, copy, build or
\* rollback for any node), run never returns Ok, and once it has returned its
\* result is the unknown-target or the config-resolution error.
C2_FailFast ==
    HasUnknownTarget =>
        /\ NoNodeWork
        /\ runResult # "Ok"
        /\ runPc \in {"eval", "returned"}
        /\ runPc = "returned" => runResult \in {"ErrTarget", "ErrEval"}
C2_Witness ==
    /\ HasUnknownTarget
    /\ \E i \in 1..Len(targets.names) : targets.names[i] \in Nodes
    /\ runResult = "ErrTarget"
    /\ exitCode = 1

\* C3 (rollback gating on build failure): in a finished node run whose
\* connect, mv and rsync succeeded and whose build failed, rollback was
\* invoked exactly once if rollback_on_failure is true and never if it is
\* false; rollback is never invoked in a node run in which no step failed,
\* and never more than once.
C3_RollbackGating ==
    \A n \in Nodes :
        /\ (pc[n] = "done" /\ CopiedThenBuildFailed(n)) =>
                Calls(n, "rm") = (IF rollback_on_failure[n] THEN 1 ELSE 0)
        /\ NoFailure(n) => Calls(n, "rm") = 0 /\ Calls(n, "mvback") = 0
        /\ Calls(n, "rm") <= 1
C3_Witness ==
    \E n \in Nodes : \E m \in Nodes \ {n} :
        /\ pc[n] = "done" /\ CopiedThenBuildFailed(n) /\ trace[n][4][2] = "OkNonZero"
        /\ rollback_on_failure[n] /\ Calls(n, "rm") = 1
        /\ pc[m] = "done" /\ CopiedThenBuildFailed(m) /\ trace[m][4][2] = "SpawnFailed"
        /\ ~rollback_on_failure[m] /\ Calls(m, "rm") = 0

\* C4 (connection failure short-circuits): a node whose connection failed has
\* invoked nothing but the connect (no mv, rsync, build, rm or mv back),
\* whatever rollback_on_failure is, has logged the connection error and only
\* it, and its run has ended.
C4_ConnectShortCircuit ==
    \A n \in Nodes :
        Failed(n, "connect") =>
            /\ trace[n] = << <<"connect", "err">> >>
            /\ errors[n] = <<"connect">>
            /\ pc[n] = "done"
C4_Witness ==
    \E n \in Nodes :
        /\ Failed(n, "connect") /\ rollback_on_failure[n] /\ pc[n] = "done"
        /\ runPc = "returned"

Degraded == \E i \in 1..Len(mlog) : mlog[i][1] = "warn"
Clean ==
    /\ \A i \in 1..Len(stdoutData) : stdoutData[i] # "invalid"
    /\ \A i \in 1..Len(stderrData) : stderrData[i] # "invalid"
IsInfoOf(s, e) == e[1] = "info" /\ e[2] = s
\* The lines of stream s in the log, in log order, each by its index in s.
Logged(s) ==
    LET f == SelectSeq(mlog, LAMBDA e : IsInfoOf(s, e))
    IN  [i \in 1..Len(f) |-> f[i][3]]
UpTo(k) == [i \in 1..k |-> i]
LoopEnded ==
    mpc \in {"wait", "returned", "caller_done"} /\ child # "spawnfailed" /\ ~Degraded

C6_ExitStatus ==
    /\ mpc \in {"returned", "caller_done"} =>
        /\ muxResult \in ProxyResults
        /\ muxResult \in {"SpawnFailed", "WaitFailed"} <=> child \in {"spawnfailed", "waitfailed"}
        /\ child = "exited" => muxResult = (IF childStatus = 0 THEN "Ok0" ELSE "OkNonZero")
    /\ mpc \notin {"returned", "caller_done"} => child \in {"unspawned", "running"}
    /\ (child \in {"exited", "waitfailed"} /\ ~Degraded) => disabled = Streams
    /\ mpc = "caller_done" => (stepResult = "Err" <=> muxResult # "Ok0")
    /\ mpc # "caller_done" => stepResult = "none"
C6_Witness ==
    /\ mpc = "caller_done" /\ ~Degraded
    /\ childStatus = 1 /\ muxResult = "OkNonZero" /\ stepResult = "Err"
    /\ Len(mlog) = 2

\* The steps of a node run before any rollback, in the order invoked.
IsForward(e) == e[1] \notin {"rm", "mvback"}
Forward(n) == SelectSeq(trace[n], IsForward)
\* The forward steps of node n follow `order` from its start, and each step
\* but the last invoked has succeeded.
StepsFollow(n, order) ==
    LET f == Forward(n)
    IN  /\ Len(f) <= Len(order)
        /\ \A i \in 1..Len(f) : f[i][1] = order[i]
        /\ \A i \in 1..(Len(f) - 1) : f[i][2] \in OkResults

\* C7, counterexample: the claim as stated (per-node step order Connecting, Hashing, Copying, Building,
\* optional Linking): every node run invokes its steps in that order, each
\* only after the previous one succeeded; in particular the copy is never
\* invoked unless a hash step succeeded before it.
C7_OrderAsStated ==
    \A n \in Nodes : StepsFollow(n, <<"connect", "hash", "mv", "rsync", "build", "link">>)

\* C7 (per-node step order), as amended: every node run invokes its steps in the order connect, copy
\* (the remote mv, then the rsync), build, each only after the previous one
\* succeeded, and a run none of whose steps failed ends after build; no hash
\* and no link step is part of a node run. (Across nodes nothing is ordered:
\* the witness has one node finished while the other has not yet connected.)
C7_StepOrder ==
    \A n \in Nodes :
        /\ StepsFollow(n, <<"connect", "mv", "rsync", "build">>)
        /\ ~Invoked(n, "hash") /\ ~Invoked(n, "link")
        /\ (pc[n] = "done" /\ NoFailure(n)) => trace[n] = FullTrace
        /\ \A i \in 1..Len(trace[n]) :
              ~IsForward(trace[n][i]) => \A j \in i..Len(trace[n]) : ~IsForward(trace[n][j])
C7_Witness ==
    \E n \in Nodes : \E m \in Nodes \ {n} :
        /\ Succeeded(n)
        /\ pc[m] = "connect" /\ trace[m] = <<>>

InFilter(n) == \E t \in Range(targets.names) : t = n

\* C8 (effective target set): once validation has passed, a node run has been
\* launched for a node exactly when the filter is absent or names the node;
\* a launched node is connected to once, never twice, also when the filter
\* names it twice, and a node not selected has nothing invoked.
C8_EffectiveTargets ==
    runPc \in {"join", "returned"} /\ runResult \notin {"ErrEval", "ErrTarget"} =>
        \A n \in Nodes :
            /\ pc[n] # "skipped" <=> (~targets.present \/ InFilter(n))
            /\ pc[n] # "idle"
            /\ pc[n] = "skipped" => trace[n] = <<>> /\ errors[n] = <<>>
            /\ Calls(n, "connect") <= 1
            /\ pc[n] \notin {"skipped", "connect"} => Calls(n, "connect") = 1
C8_Witness ==
    \E n \in Nodes : \E m \in Nodes \ {n} :
        /\ targets = Given(<<n, n>>)
        /\ pc[n] = "done" /\ Calls(n, "connect") = 1 /\ Invoked(n, "build")
        /\ pc[m] = "skipped"
        /\ runPc = "returned"

\* The node run of n ended where process_node ends it, not earlier.
RanToEnd(n) ==
    /\ trace[n] # <<>>
    /\ LET last == trace[n][Len(trace[n])]
       IN  \/ last = <<"connect", "err">>
           \/ last = <<"build", "Ok0">>
           \/ last[1] \in {"mv", "rsync", "build"} /\ last[2] \notin OkResults
                /\ ~rollback_on_failure[n]
           \/ last[1] = "rm" /\ last[2] # "ok"
           \/ last[1] = "mvback"

\* When run has returned Ok every node run is over, none cut short.
C9_AllTerminal ==
    (runPc = "returned" /\ runResult = "Ok") =>
        \A n \in Nodes : Terminal(n) /\ (pc[n] = "done" => RanToEnd(n))

\* C9 (wait-for-all without cancellation): run has returned Ok only when every
\* launched node run has reached its end, each having run to where
\* process_node itself ends it, whatever happened to its siblings; and, every
\* command terminating and every node task being scheduled, run eventually
\* returns.
C9_WaitForAll == [] C9_AllTerminal /\ <>(runPc = "returned")
C9_Witness ==
    \E n \in Nodes : \E m \in Nodes \ {n} :
        /\ runPc = "returned" /\ runResult = "Ok"
        /\ pc[n] = "done" /\ Failed(n, "connect")
        /\ pc[m] = "done" /\ Invoked(m, "mvback")

\* C10 (process-level result): once validation has passed, run returns Ok and
\* the process exits 0 whatever the node runs did; the exit code is non-zero
\* only when run returned the config-resolution or the unknown-target error,
\* in which case no node work was ever started.
C10_ProcessResult ==
    /\ (runPc = "returned" /\ ~NoNodeWork) => runResult = "Ok"
    /\ runPc = "join" => runResult = "none"
    /\ exitCode \in {-1, 0, 1}
    /\ exitCode = 0 => runResult = "Ok"
    /\ exitCode = 1 =>
        /\ runResult \in {"ErrEval", "ErrTarget"}
        /\ NoNodeWork
        /\ runResult = "ErrTarget" => HasUnknownTarget
C10_Witness ==
    \E n \in Nodes : \E m \in Nodes \ {n} :
        /\ exitCode = 0
        /\ Failed(n, "connect")
        /\ Failed(m, "build") /\ Failed(m, "rm")

OriginalErrors == {"connect", "copy", "build"}
Originals(n) == Cardinality({i \in 1..Len(errors[n]) : errors[n][i] \in OriginalErrors})
RollbackFailed(n) == Failed(n, "rm") \/ Failed(n, "mvback")

\* The error of a failed step is in the log exactly once, first, and the
\* error of a failed rollback is a second entry after it.
C11_BothLogged ==
    \A n \in Nodes :
        /\ Originals(n) = (IF NoFailure(n) THEN 0 ELSE 1)
        /\ ~NoFailure(n) => errors[n][1] \in OriginalErrors
        /\ Invoked(n, "rm") =>
            /\ errors[n][1] \in {"copy", "build"}
            /\ errors[n] = (IF RollbackFailed(n) THEN <<errors[n][1], "rollback">>
                                                 ELSE <<errors[n][1]>>)
\* The rollback starts only with the error that led to it already logged.
C11_LoggedBeforeRollback ==
    \A n \in Nodes :
        (~Invoked(n, "rm") /\ trace'[n] # trace[n] /\ trace'[n][Len(trace'[n])][1] = "rm") =>
            Len(errors[n]) = 1 /\ errors[n][1] \in {"copy", "build"}

\* C11 (rollback never masks the original failure): in every node run the
\* error of the failed step is logged exactly once, whether a rollback
\* succeeds, fails or is not attempted; it is logged before the rollback's
\* first command is invoked, and the error of a failed rollback is logged as a
\* second, separate entry after it.
C11_NeverMasks == [] C11_BothLogged /\ [][C11_LoggedBeforeRollback]_vars
C11_Witness ==
    \E n \in Nodes : \E m \in Nodes \ {n} :
        /\ pc[n] = "done" /\ errors[n] = <<"build", "rollback">> /\ Failed(n, "mvback")
        /\ pc[m] = "done" /\ errors[m] = <<"copy">> /\ Invoked(m, "rm")
        /\ ~RollbackFailed(m)

\* C14 (copy failure applies the rollback policy): in a finished node run
\* whose copy failed at the remote mv or at the rsync, the build was never
\* invoked, and rollback was invoked exactly once if rollback_on_failure is
\* true and not at all if it is false.
C14_CopyFailurePolicy ==
    \A n \in Nodes :
        (Failed(n, "mv") \/ Failed(n, "rsync")) =>
            /\ ~Invoked(n, "build")
            /\ ~(Failed(n, "mv") /\ Invoked(n, "rsync"))
            /\ pc[n] = "done" => Calls(n, "rm") = (IF rollback_on_failure[n] THEN 1 ELSE 0)
            /\ Calls(n, "rm") <= 1
            /\ ~rollback_on_failure[n] => pc[n] = "done"
C14_Witness ==
    \E n \in Nodes : \E m \in Nodes \ {n} :
        /\ pc[n] = "done" /\ Failed(n, "mv") /\ rollback_on_failure[n] /\ Calls(n, "rm") = 1
        /\ pc[m] = "done" /\ Failed(m, "rsync") /\ ~rollback_on_failure[m]
        /\ Calls(m, "rm") = 0

BuildSucceeded(n) == \E i \in 1..Len(trace[n]) : trace[n][i] = <<"build", "Ok0">>

Rebuilds(n) == {cmds[n][i] : i \in {j \in DOMAIN cmds[n] : cmds[n][j].cmd = "nixos-rebuild"}}

\* C15: every remote build command is in boot mode exactly when `boot` is
\* set (switch mode otherwise), asks for the trace exactly when `show_trace`
\* is set, and names the profile of the node's own name.
C15_AsStated ==
    \A n \in Nodes : \A a \in Rebuilds(n) :
        /\ ("boot" \in Range(a.args)) <=> boot
        /\ ("switch" \in Range(a.args)) <=> ~boot
        /\ ("--show-trace" \in Range(a.args)) <=> show_trace
        /\ a.flake.name = n

\* ---------------------------------------------------------------- C12
\* As the claim has it: two copies of different contents to a node never write
\* the same remote path.
C12_HashKeyed ==
    \A a, b \in copies : (a.host = b.host /\ a.from # b.from) => a.to # b.to

\* C12: the copy step writes the fixed path /etc/nixos of the node, whatever
\* the content of the local config directory, so that copies of different
\* contents to a node write the same path; the build step builds from that
\* path.
C12_FixedPath ==
    /\ \A a \in copies : a.to = EtcNixos
    /\ \A n \in Nodes : \A b \in Rebuilds(n) : b.flake.path = EtcNixos

C12_Witness ==
    /\ \E a, b \in copies : a.host = "alpha" /\ b.host = "alpha" /\ a.from # b.from
    /\ Rebuilds("alpha") # {}

\* ---------------------------------------------------------------- C19
\* The initial `mv /etc/nixos /etc/nixos.old` of this node run succeeded.
MovedAside(n) == \E i \in 1..Len(trace[n]) : trace[n][i] = <<"mv", "ok">>
Removed(n) == \E i \in 1..Len(trace[n]) : trace[n][i] = <<"rm", "ok">>

\* C19: the rollback removes the remote /etc/nixos only if this run had first
\* moved the original /etc/nixos to /etc/nixos.old; when the failure is that
\* initial mv itself, /etc/nixos holds after the run what it held before it.
C19_AsStated ==
    \A n \in Nodes :
        /\ Removed(n) => MovedAside(n)
        /\ (Terminal(n) /\ Failed(n, "mv")) => fs[n].nixos = nixosBefore[n]

\* ---------------------------------------------------------------- C20
\* This node run copied, failed to build, and both rollback commands succeeded.
RolledBack(n) ==
    /\ CopiedThenBuildFailed(n)
    /\ Removed(n)
    /\ \E i \in 1..Len(trace[n]) : trace[n][i] = <<"mvback", "ok">>

\* C20: after any sequence of runs against a node, when a run copies, fails
\* to build and rolls back with success, /etc/nixos holds afterwards what it
\* held immediately before that run.
C20_AsStated ==
    \A n \in Nodes : RolledBack(n) => fs[n].nixos = nixosBefore[n]

\* ---------------------------------------------------------------- C18
\* Node n is in the middle of its run, at a connection attempt or a command.
Pending(n) == pc[n] \in {"connect", "mv", "rsync", "build", "rb_rm", "rb_mv"}

C18_OtherNodeFinishes == (runPc = "join") ~> Terminal("beta")
C18_OnlyTheWaitPends == (Pending("alpha") /\ runPc # "eval") => runPc = "join"

\* C18: when the commands of one node never complete, the other node still
\* reaches its terminal state; what stays pending is the stalled node's task
\* and the final wait of `run`, which does not return.
C18_HungNodeStallsOnlyItself == C18_OtherNodeFinishes /\ []C18_OnlyTheWaitPends

C18_Witness ==
    /\ Pending("alpha") /\ trace["alpha"] = <<>>
    /\ pc["beta"] = "done" /\ Len(trace["beta"]) >= 4
    /\ runPc = "join"

\* ---------------------------------------------------------------- C16
NoInvalid(s) == \A i \in 1..Len(Data(s)) : Data(s)[i] # "invalid"
\* Line k of stream s is there to be read.
Available(s, k) ==
    /\ k <= Written(s)
    /\ Data(s)[k] = "partial" => childEnded
Emitted(s, k) == k \in Range(Logged(s))
Exhausted(s) == childEnded /\ Pos(s) = Len(Data(s))

C16_LineEmitted ==
    \A s \in Streams : \A k \in 1..MaxLines :
        (mpc = "select" /\ NoInvalid(s) /\ Available(s, k)) ~> Emitted(s, k)
C16_LoopLeft == mpc = "select" /\ mpc' # "select" => disabled = Streams
C16_EndsExhausted == (LoopEnded /\ Clean) => \A s \in Streams : Exhausted(s)

Stuck ==
    /\ mpc = "wait" /\ child = "running" /\ ~childEnded
    /\ \E s \in piped : Written(s) < Len(Data(s)) /\ Written(s) - Pos(s) >= PipeCap

\* C17: when the handle of stdout or of stderr is not there, a warning is
\* logged, nothing is multiplexed, the child is waited for and its status is
\* returned as a value; the child is never left blocked on a pipe that nobody
\* reads.
C17_AsStated ==
    Degraded =>
        /\ mpc \in {"wait", "returned", "caller_done"}
        /\ \A i \in 1..Len(mlog) : mlog[i][1] = "warn"
        /\ child = "exited" => muxResult \in {"Ok0", "OkNonZero"}
        /\ ~Stuck

\* ---------------------------------------------------------------- C21
\* Every readable line of stream s is in the log.
AllEmitted(s) ==
    \A k \in 1..Len(Data(s)) : Data(s)[k] # "invalid" => Emitted(s, k)

\* C21: the read loop ends only when both streams have reached end-of-stream,
\* read errors included: when it has ended, every stream is exhausted and
\* every readable line of it has been emitted.
C21_AsStated ==
    LoopEnded => \A s \in Streams : Exhausted(s) /\ AllEmitted(s)

\* ---------------------------------------------------------------- C22
\* C22: every remote operation of a node run, the rsync transfer included, is
\* directed at the address and the port of the session that connect_to_node
\* opened.
C22_AsStated ==
    \A n \in Nodes : \A i \in 1..Len(cmds[n]) : cmds[n][i].endpoint = cmds[n][1].endpoint

\* ---------------------------------------------------------------- C23
\* process_node_raw of main.rs returned Ok(()) in this node run.
ReportedOk(n) == \E i \in 1..Len(trace[n]) : trace[n][i] = <<"process_node_raw", "Ok">>

\* C23: in the variant of main.rs, rollback is invoked at most once in a node
\* run, and a run whose build failed is never one where process_node_raw
\* returned Ok.
C23_AsStated ==
    \A n \in Nodes :
        /\ Calls(n, "rm") <= 1
        /\ ReportedOk(n) => ~Failed(n, "build")

=============================================================================
